---- MODULE Spec2Model ----
(***************************************************************************)
(* Star field viewer: the constellation placement scene, the galaxy scene  *)
(* (selection, search, focus, tint mix) and the catalog projector.         *)
(*                                                                         *)
(* Conventions                                                             *)
(*   - a raw (floating point) scene coordinate is an integer number of     *)
(*     tenths; a grid coordinate is an integer number of units;            *)
(*   - JS null is NoId / NoPos / NoStar, according to the type of the      *)
(*     field that holds it;                                                *)
(*   - every React event handler is an operator from the component's state *)
(*     (a record of its useState cells) to its next state, and one action  *)
(*     applies it: a handler runs to completion on the state of the latest *)
(*     render.                                                             *)
(***************************************************************************)
EXTENDS Integers, Sequences, FiniteSets, TLC

VARIABLES
    \* ConstellationCanvas (GalaxyCanvas.tsx 660-770)
    inventory,            \* useState<InventoryStar[]>
    editMode,             \* useState(false)
    selectedInventoryId,  \* useState<string | null>: the armed id
    selectedStar,         \* useState<InventoryStar | null>: displayed selection
    lastOp,               \* history: the handler that ran last, and the point
                          \* of a plane click
    retArmPlace           \* history: progress of the last handlers through
                          \* returnToInventory(id), armForPlacement(id), placeAt(p)

constVars ==
    <<inventory, editMode, selectedInventoryId, selectedStar, lastOp, retArmPlace>>

VARIABLES
    \* GalaxyCanvas with its StarField
    variant,              \* which GalaxyCanvas is mounted: "controls"
                          \* (GalaxyCanvas.tsx 108-308, StarField of part_000) or
                          \* "focus" (GalaxyCanvas.tsx 323-482, StarField.tsx)
    catalog,              \* ../data/stars.json
    stars,                \* StarField: useMemo<StarData[]>
    galaxySelected,       \* GalaxyCanvas: selectedStar
    searchValue,          \* GalaxyCanvas: searchValue
    pending,              \* performSearch calls awaiting import(), as a bag of
                          \* the search text each one closed over
    focus,                \* "focus": useState<FocusState>
    controlsTarget,       \* "controls": controlsRef.current.target
    cameraPosition,       \* "controls": controlsRef.current.object.position
    focusMix,             \* Star: focusMixRef.current, one per rendered star,
                          \* in units of 1 / MixDen
    consoleWarn,          \* what the last step wrote with console.warn
    galaxyOp,             \* history: the handler that ran last
    selectedCat           \* history: catalog index of the displayed star

galaxyVars ==
    <<variant, catalog, stars, galaxySelected, searchValue, pending, focus,
      controlsTarget, cameraPosition, focusMix, consoleWarn, galaxyOp,
      selectedCat>>

VARIABLES
    \* one call of the spectral-class inference
    inferStar,            \* the CatalogStar passed in
    inferClass            \* what each copy of the function returned

inferVars == <<inferStar, inferClass>>

vars == <<constVars, galaxyVars, inferVars>>

-----------------------------------------------------------------------------
(* Bounds of the model *)

\* Math.random() is drawn from {0, 1/RandSteps, ..., (RandSteps-1)/RandSteps}
RandSteps == 2
\* at most MaxPlaced inventory entries are on the plane at a time
MaxPlaced == 2
\* a spectral-type string has at most MaxSpectLen characters
MaxSpectLen == 2
\* the catalog holds CatalogSize records
CatalogSize == 2
\* at most MaxPending searches await their import() at a time
MaxPending == 2
\* a mix is followed through MaxFrames frames that move it
MaxFrames == 4

-----------------------------------------------------------------------------
(* JavaScript helpers *)

NoId == "null"
NoPos == <<>>
NoStar == [none |-> TRUE]

\* Math.round on a value given in tenths: the nearest integer, a tie going up
MathRound(tenths) == (tenths + 5) \div 10

\* Math.round(min + r * (max - min)) for r = k / RandSteps
RoundRandInRange(min, max, k) ==
    (2 * (min * RandSteps + k * (max - min)) + RandSteps) \div (2 * RandSteps)

\* page.tsx mounts one scene at a time: the cells of the other one do not exist
GalaxyUnmounted ==
    /\ variant = "unmounted"
    /\ catalog = <<>>
    /\ stars = <<>>
    /\ galaxySelected = NoStar
    /\ searchValue = <<>>
    /\ pending = <<>>
    /\ focus = NoStar
    /\ controlsTarget = NoPos
    /\ cameraPosition = NoPos
    /\ focusMix = <<>>
    /\ consoleWarn = <<>>
    /\ galaxyOp = [op |-> "unmounted"]
    /\ selectedCat = 0

\* no call of the inference function is being followed
InferIdle ==
    /\ inferStar = [none |-> TRUE]
    /\ inferClass = [none |-> TRUE]

ConstellationUnmounted ==
    /\ inventory = <<>>
    /\ editMode = FALSE
    /\ selectedInventoryId = NoId
    /\ selectedStar = NoStar
    /\ lastOp = [op |-> "unmounted", arg |-> NoPos]
    /\ retArmPlace = [stage |-> 0, id |-> NoId]

-----------------------------------------------------------------------------
(* Constellation scene *)

NumCommon == 5
NumUncommon == 2

RARITY_VISUAL_CONFIG ==
    [common   |-> [typeName |-> "K/M-type dwarf", sizeLabel |-> "Small",
                   temperatureRange |-> <<3000, 5000>>],
     uncommon |-> [typeName |-> "G-type star", sizeLabel |-> "Medium",
                   temperatureRange |-> <<5000, 6000>>]]

\* snapToGrid with Math.floor in the place of Math.round
snapToGrid_floor(pos, step) ==
    [i \in 1..3 |-> ((pos[i] \div step) \div 10) * step]

\* snapToGrid(pos, step): pos in tenths, the result in units.  The code only
\* ever passes step = 1, for which pos / step is pos.
snapToGrid(pos, step) ==
    [i \in 1..3 |-> MathRound(pos[i] \div step) * step]

\* makeStar(rarity, index); k is the Math.random() draw
makeStar(rarity, index, k) ==
    LET cfg == RARITY_VISUAL_CONFIG[rarity] IN
    [id          |-> rarity \o "-" \o ToString(index),
     rarity      |-> rarity,
     placed      |-> FALSE,
     position    |-> NoPos,
     name        |-> "???",
     status      |-> "unclaimed",
     type        |-> cfg.typeName,
     temperature |-> RoundRandInRange(cfg.temperatureRange[1],
                                      cfg.temperatureRange[2], k),
     sizeLabel   |-> cfg.sizeLabel]

\* the useState initializer.  No handler reads a temperature, so one run of
\* draws stands for all: the n-th call of Math.random() returns
\* (n mod RandSteps) / RandSteps.
InitialInventory ==
    [n \in 1..(NumCommon + NumUncommon) |->
        IF n <= NumCommon
        THEN makeStar("common", n - 1, n % RandSteps)
        ELSE makeStar("uncommon", n - NumCommon - 1, n % RandSteps)]

InventoryIds == {InitialInventory[n].id : n \in 1..(NumCommon + NumUncommon)}

\* inventory.find((s) => s.id === id): the first index, 0 when there is none
FindIndex(inv, id) ==
    IF \E n \in 1..Len(inv) : inv[n].id = id
    THEN CHOOSE n \in 1..Len(inv) :
            inv[n].id = id /\ \A m \in 1..(n - 1) : inv[m].id # id
    ELSE 0

\* placedStars (useMemo)
placedStars(inv) == SelectSeq(inv, LAMBDA s : s.placed /\ s.position # NoPos)

\* handleToggleEdit without the clearing of the armed id
handleToggleEdit_keepsArmed(st) == [st EXCEPT !.editMode = ~st.editMode]

handleToggleEdit(st) ==
    [st EXCEPT !.editMode = ~st.editMode,
               !.selectedInventoryId =
                    IF st.editMode THEN NoId ELSE st.selectedInventoryId]

\* handleSelectInventoryStar that arms and never disarms
handleSelectInventoryStar_alwaysArms(st, id) ==
    IF ~st.editMode THEN st
    ELSE [st EXCEPT !.selectedInventoryId = id]

\* handleSelectInventoryStar without the test of the edit mode
handleSelectInventoryStar_ignoresMode(st, id) ==
    [st EXCEPT !.selectedInventoryId =
                   IF st.selectedInventoryId = id THEN NoId ELSE id]

handleSelectInventoryStar(st, id) ==
    IF ~st.editMode THEN st
    ELSE [st EXCEPT !.selectedInventoryId =
                        IF st.selectedInventoryId = id THEN NoId ELSE id]

\* handleReturnToInventory that clears the armed id and the displayed
\* selection whatever they are
handleReturnToInventory_clearsAll(st, id) ==
    [st EXCEPT
        !.inventory = [n \in 1..Len(st.inventory) |->
                          IF st.inventory[n].id = id
                          THEN [st.inventory[n] EXCEPT !.placed = FALSE,
                                                       !.position = NoPos]
                          ELSE st.inventory[n]],
        !.selectedInventoryId = NoId,
        !.selectedStar = NoStar]

\* handleReturnToInventory that clears the placed flag and keeps the position
handleReturnToInventory_keepsPosition(st, id) ==
    [st EXCEPT
        !.inventory = [n \in 1..Len(st.inventory) |->
                          IF st.inventory[n].id = id
                          THEN [st.inventory[n] EXCEPT !.placed = FALSE]
                          ELSE st.inventory[n]],
        !.selectedInventoryId =
            IF st.selectedInventoryId = id THEN NoId
            ELSE st.selectedInventoryId,
        !.selectedStar =
            IF st.selectedStar # NoStar /\ st.selectedStar.id = id THEN NoStar
            ELSE st.selectedStar]

\* handleReturnToInventory that leaves the displayed selection alone
handleReturnToInventory_keepsDisplayed(st, id) ==
    [st EXCEPT
        !.inventory = [n \in 1..Len(st.inventory) |->
                          IF st.inventory[n].id = id
                          THEN [st.inventory[n] EXCEPT !.placed = FALSE,
                                                       !.position = NoPos]
                          ELSE st.inventory[n]],
        !.selectedInventoryId =
            IF st.selectedInventoryId = id THEN NoId
            ELSE st.selectedInventoryId]

\* handleReturnToInventory that leaves the armed id alone
handleReturnToInventory_keepsArmed(st, id) ==
    [st EXCEPT
        !.inventory = [n \in 1..Len(st.inventory) |->
                          IF st.inventory[n].id = id
                          THEN [st.inventory[n] EXCEPT !.placed = FALSE,
                                                       !.position = NoPos]
                          ELSE st.inventory[n]],
        !.selectedStar =
            IF st.selectedStar # NoStar /\ st.selectedStar.id = id THEN NoStar
            ELSE st.selectedStar]

handleReturnToInventory(st, id) ==
    [st EXCEPT
        !.inventory = [n \in 1..Len(st.inventory) |->
                          IF st.inventory[n].id = id
                          THEN [st.inventory[n] EXCEPT !.placed = FALSE,
                                                       !.position = NoPos]
                          ELSE st.inventory[n]],
        !.selectedInventoryId =
            IF st.selectedInventoryId = id THEN NoId
            ELSE st.selectedInventoryId,
        !.selectedStar =
            IF st.selectedStar # NoStar /\ st.selectedStar.id = id THEN NoStar
            ELSE st.selectedStar]

\* handlePlaneClick that clears the displayed selection when it places nothing
handlePlaneClick_clearsSelection(st, pos) ==
    IF ~st.editMode \/ st.selectedInventoryId = NoId
    THEN [st EXCEPT !.selectedStar = NoStar]
    ELSE
      LET snapped == snapToGrid(pos, 1)
          b == FindIndex(st.inventory, st.selectedInventoryId)
      IN IF b = 0 THEN st
         ELSE
           LET updatedStar == [st.inventory[b] EXCEPT !.placed = TRUE,
                                                      !.position = snapped]
           IN [st EXCEPT
                 !.inventory = [n \in 1..Len(st.inventory) |->
                                   IF st.inventory[n].id = st.selectedInventoryId
                                   THEN updatedStar ELSE st.inventory[n]],
                 !.selectedStar = updatedStar]

\* handlePlaneClick that gives the placed entry the name "placed"
handlePlaneClick_renames(st, pos) ==
    IF ~st.editMode \/ st.selectedInventoryId = NoId THEN st
    ELSE
      LET snapped == snapToGrid(pos, 1)
          b == FindIndex(st.inventory, st.selectedInventoryId)
      IN IF b = 0 THEN st
         ELSE
           LET updatedStar == [st.inventory[b] EXCEPT !.placed = TRUE,
                                                      !.position = snapped,
                                                      !.name = "placed"]
           IN [st EXCEPT
                 !.inventory = [n \in 1..Len(st.inventory) |->
                                   IF st.inventory[n].id = st.selectedInventoryId
                                   THEN updatedStar ELSE st.inventory[n]],
                 !.selectedStar = updatedStar]

\* handlePlaneClick that returns to the inventory whatever entry holds the
\* grid point already
handlePlaneClick_evictsOccupant(st, pos) ==
    IF ~st.editMode \/ st.selectedInventoryId = NoId THEN st
    ELSE
      LET snapped == snapToGrid(pos, 1)
          b == FindIndex(st.inventory, st.selectedInventoryId)
      IN IF b = 0 THEN st
         ELSE
           LET updatedStar == [st.inventory[b] EXCEPT !.placed = TRUE,
                                                      !.position = snapped]
           IN [st EXCEPT
                 !.inventory = [n \in 1..Len(st.inventory) |->
                                   IF st.inventory[n].id = st.selectedInventoryId
                                   THEN updatedStar
                                   ELSE IF st.inventory[n].position = snapped
                                   THEN [st.inventory[n] EXCEPT
                                            !.placed = FALSE, !.position = NoPos]
                                   ELSE st.inventory[n]],
                 !.selectedStar = updatedStar]

\* handlePlaneClick that disarms once the star is placed
handlePlaneClick_disarms(st, pos) ==
    IF ~st.editMode \/ st.selectedInventoryId = NoId THEN st
    ELSE
      LET snapped == snapToGrid(pos, 1)
          b == FindIndex(st.inventory, st.selectedInventoryId)
      IN IF b = 0 THEN st
         ELSE
           LET updatedStar == [st.inventory[b] EXCEPT !.placed = TRUE,
                                                      !.position = snapped]
           IN [st EXCEPT
                 !.inventory = [n \in 1..Len(st.inventory) |->
                                   IF st.inventory[n].id = st.selectedInventoryId
                                   THEN updatedStar ELSE st.inventory[n]],
                 !.selectedStar = updatedStar,
                 !.selectedInventoryId = NoId]

handlePlaneClick(st, pos) ==
    IF ~st.editMode \/ st.selectedInventoryId = NoId THEN st
    ELSE
      LET snapped == snapToGrid(pos, 1)
          b == FindIndex(st.inventory, st.selectedInventoryId)
      IN IF b = 0 THEN st
         ELSE
           LET updatedStar == [st.inventory[b] EXCEPT !.placed = TRUE,
                                                      !.position = snapped]
           IN [st EXCEPT
                 !.inventory = [n \in 1..Len(st.inventory) |->
                                   IF st.inventory[n].id = st.selectedInventoryId
                                   THEN updatedStar ELSE st.inventory[n]],
                 !.selectedStar = updatedStar]

\* handlePlacedStarClick that arms the star outside edit mode as well
handlePlacedStarClick_alwaysArms(st, id) ==
    LET b == FindIndex(st.inventory, id) IN
    IF b = 0 \/ st.inventory[b].position = NoPos THEN st
    ELSE [st EXCEPT !.selectedStar = st.inventory[b],
                    !.selectedInventoryId = id]

\* handlePlacedStarClick that displays the star and never arms it
handlePlacedStarClick_displayOnly(st, id) ==
    LET b == FindIndex(st.inventory, id) IN
    IF b = 0 \/ st.inventory[b].position = NoPos THEN st
    ELSE [st EXCEPT !.selectedStar = st.inventory[b]]

handlePlacedStarClick(st, id) ==
    LET b == FindIndex(st.inventory, id) IN
    IF b = 0 \/ st.inventory[b].position = NoPos THEN st
    ELSE [st EXCEPT !.selectedStar = st.inventory[b],
                    !.selectedInventoryId =
                        IF st.editMode THEN id ELSE st.selectedInventoryId]

\* clearSelection that also returns every star to the inventory
clearSelection_unplaces(st) ==
    [st EXCEPT !.selectedStar = NoStar, !.selectedInventoryId = NoId,
               !.inventory = [n \in 1..Len(st.inventory) |->
                                 [st.inventory[n] EXCEPT !.placed = FALSE,
                                                         !.position = NoPos]]]

clearSelection(st) ==
    [st EXCEPT !.selectedStar = NoStar, !.selectedInventoryId = NoId]

\* ConstellationCameraRig targetPos={selectedStar?.position ?? null}
targetPos(st) ==
    IF st.selectedStar = NoStar THEN NoPos ELSE st.selectedStar.position

\* The raw points a plane click delivers (tenths).  They fall into two grid
\* cells, (1, 3, 0) and (0, 1, -1), and include the half-way cases of
\* Math.round on both sides of zero.
RawPositions ==
    { <<14, 26, -2>>, <<5, 25, -5>>, <<-5, 5, -15>>, <<4, 14, -6>> }

CState ==
    [inventory |-> inventory, editMode |-> editMode,
     selectedInventoryId |-> selectedInventoryId,
     selectedStar |-> selectedStar]

NumPlaced(inv) == Cardinality({n \in 1..Len(inv) : inv[n].placed})

\* how far the handlers run so far are through the sequence
\* handleReturnToInventory(id), handleSelectInventoryStar(id), handlePlaneClick(p),
\* all in edit mode
Progress(op, arg) ==
    CASE op = "handleReturnToInventory" /\ editMode -> [stage |-> 1, id |-> arg]
      [] op = "handleSelectInventoryStar" /\ retArmPlace = [stage |-> 1, id |-> arg]
            -> [stage |-> 2, id |-> arg]
      [] op = "handlePlaneClick" /\ retArmPlace.stage = 2
            -> [stage |-> 3, id |-> retArmPlace.id]
      [] OTHER -> [stage |-> 0, id |-> NoId]

\* the component's cells take the handler's result
Becomes(st, op, arg) ==
    /\ inventory' = st.inventory
    /\ editMode' = st.editMode
    /\ selectedInventoryId' = st.selectedInventoryId
    /\ selectedStar' = st.selectedStar
    /\ lastOp' = [op |-> op,
                   arg |-> IF op = "handlePlaneClick" THEN arg ELSE NoPos]
    /\ retArmPlace' = Progress(op, arg)
    /\ UNCHANGED <<galaxyVars, inferVars>>

ConstInit ==
    /\ inventory = InitialInventory
    /\ editMode = FALSE
    /\ selectedInventoryId = NoId
    /\ selectedStar = NoStar
    /\ lastOp = [op |-> "mount", arg |-> NoPos]
    /\ retArmPlace = [stage |-> 0, id |-> NoId]
    /\ GalaxyUnmounted
    /\ InferIdle

ToggleEdit == Becomes(handleToggleEdit(CState), "handleToggleEdit", NoId)

\* a click on "Use" in any row of the inventory list, placed or not
SelectInventoryStar_anyEntry ==
    \E id \in InventoryIds :
        Becomes(handleSelectInventoryStar(CState, id), "handleSelectInventoryStar", id)

\* a click on the "Use" button of an inventory row.  The row of a placed
\* entry has a "Return" button in its place; outside edit mode the button is
\* disabled, and the handler returns at once as well.
SelectInventoryStar ==
    \E id \in InventoryIds :
        /\ ~inventory[FindIndex(inventory, id)].placed
        /\ Becomes(handleSelectInventoryStar(CState, id), "handleSelectInventoryStar", id)

ReturnToInventory ==
    \E id \in InventoryIds :
        Becomes(handleReturnToInventory(CState, id), "handleReturnToInventory", id)

PlaneClick ==
    \E pos \in RawPositions :
        LET st == handlePlaneClick(CState, pos) IN
        /\ NumPlaced(st.inventory) <= MaxPlaced
        /\ Becomes(st, "handlePlaneClick", pos)

PlacedStarClick ==
    \E id \in InventoryIds :
        Becomes(handlePlacedStarClick(CState, id), "handlePlacedStarClick", id)

PointerMissed == Becomes(clearSelection(CState), "clearSelection", NoId)

ConstNext ==
    \/ ToggleEdit
    \/ SelectInventoryStar
    \/ ReturnToInventory
    \/ PlaneClick
    \/ PlacedStarClick
    \/ PointerMissed

SpecConstellation == ConstInit /\ [][ConstNext]_vars

-----------------------------------------------------------------------------
(* Properties of the constellation scene *)

Abs(n) == IF n < 0 THEN -n ELSE n

\* C1: from every reachable state in edit mode with an armed id, placeAt(p)
\* marks exactly the armed entry as placed, leaves every other entry as it
\* was, stores a position of integers each of which is the integer nearest to
\* the raw coordinate ((1.4, 2.6, -0.2) gives (1, 3, 0)), and makes that entry
\* the displayed selection.
C1_PlaceAtSnapsArmedEntry ==
    \A pos \in RawPositions :
        (editMode /\ selectedInventoryId # NoId) =>
            LET st == handlePlaneClick(CState, pos)
                b == FindIndex(inventory, selectedInventoryId)
            IN /\ b # 0
               /\ st.inventory[b].placed
               /\ st.inventory[b].id = selectedInventoryId
               /\ DOMAIN st.inventory[b].position = 1..3
               /\ \A i \in 1..3 :
                     /\ st.inventory[b].position[i] \in Int
                     /\ Abs(10 * st.inventory[b].position[i] - pos[i]) <= 5
               /\ (pos = <<14, 26, -2>>
                      => st.inventory[b].position = <<1, 3, 0>>)
               /\ \A n \in 1..Len(inventory) :
                     n # b => st.inventory[n] = inventory[n]
               /\ Len(st.inventory) = Len(inventory)
               /\ st.selectedStar = st.inventory[b]

\* C1 witness: placeAt((1.4, 2.6, -0.2)) has just run in edit mode with an
\* armed id, and the armed entry is displayed at (1, 3, 0).
C1_Witness ==
    /\ lastOp = [op |-> "handlePlaneClick", arg |-> <<14, 26, -2>>]
    /\ editMode
    /\ selectedInventoryId # NoId
    /\ selectedStar # NoStar
    /\ selectedStar.id = selectedInventoryId
    /\ selectedStar.position = <<1, 3, 0>>
    /\ inventory[FindIndex(inventory, selectedInventoryId)].placed

\* C2: in edit mode, returnToInventory(id); armForPlacement(id); placeAt(p)
\* ends with entry id placed at snap(p), from every reachable state (whatever
\* was placed, armed or displayed), and in every run where the three handlers
\* ran one after the other.
C2_ReturnArmPlace ==
    /\ editMode =>
          \A b \in 1..Len(inventory) : \A pos \in RawPositions :
            LET id == inventory[b].id
                s3 == handlePlaneClick(
                        handleSelectInventoryStar(
                          handleReturnToInventory(CState, id), id), pos)
                e == s3.inventory[b]
            IN e = [inventory[b] EXCEPT !.placed = TRUE,
                                        !.position = snapToGrid(pos, 1)]
    /\ retArmPlace.stage = 3 =>
          LET b == FindIndex(inventory, retArmPlace.id) IN
          /\ inventory[b].placed
          /\ inventory[b].position = snapToGrid(lastOp.arg, 1)

\* C2 witness: the three handlers have run in a row on one id and the entry
\* is placed at the snapped point.
C2_Witness ==
    /\ retArmPlace.stage = 3
    /\ lastOp.op = "handlePlaneClick"
    /\ editMode
    /\ inventory[FindIndex(inventory, retArmPlace.id)].placed
    /\ inventory[FindIndex(inventory, retArmPlace.id)].position
          = snapToGrid(lastOp.arg, 1)

\* C3: a placeAt(p) that places keeps the armed id, and a second placeAt(p)
\* changes nothing: inventory, armed id and displayed selection stay as the
\* first call left them.
C3_PlaceAtKeepsArmedAndIsIdempotent ==
    \A pos \in RawPositions :
        (editMode /\ selectedInventoryId # NoId) =>
            LET s1 == handlePlaneClick(CState, pos)
                s2 == handlePlaneClick(s1, pos)
            IN /\ s1.selectedInventoryId = selectedInventoryId
               /\ s1.editMode
               /\ s1.inventory
                     [FindIndex(s1.inventory, selectedInventoryId)].placed
               /\ s2 = s1

\* C3 witness: placeAt(p) has just placed the armed entry, the id is still
\* armed, and the same placeAt(p) again leaves the state as it is.
C3_Witness ==
    /\ lastOp.op = "handlePlaneClick"
    /\ editMode
    /\ selectedInventoryId # NoId
    /\ selectedStar # NoStar
    /\ selectedStar.id = selectedInventoryId
    /\ selectedStar.position = snapToGrid(lastOp.arg, 1)
    /\ handlePlaneClick(CState, lastOp.arg) = CState

\* C13: exiting edit mode clears the armed id, entering it keeps the armed
\* id; either way the inventory (every placed flag and position) and the
\* displayed selection stay as they are and the flag is inverted.
C13_ToggleEditKeepsPlacements ==
    LET st == handleToggleEdit(CState) IN
    /\ st.editMode = ~editMode
    /\ st.inventory = inventory
    /\ \A n \in 1..Len(inventory) :
          /\ st.inventory[n].placed = inventory[n].placed
          /\ st.inventory[n].position = inventory[n].position
    /\ st.selectedStar = selectedStar
    /\ editMode => st.selectedInventoryId = NoId
    /\ ~editMode => st.selectedInventoryId = selectedInventoryId

\* C13 witness: edit mode has just been left; nothing is armed and a star is
\* still placed and displayed.
C13_Witness ==
    /\ lastOp.op = "handleToggleEdit"
    /\ ~editMode
    /\ selectedInventoryId = NoId
    /\ NumPlaced(inventory) > 0
    /\ selectedStar # NoStar
    /\ inventory[FindIndex(inventory, selectedStar.id)].position
          = selectedStar.position

\* C14: in edit mode armForPlacement(id) leaves no armed id when id is the
\* armed one, and id armed otherwise (none armed, or another one); the
\* inventory, the edit mode and the displayed selection stay as they are.
C14_ArmToggles ==
    editMode =>
        \A id \in InventoryIds :
            LET st == handleSelectInventoryStar(CState, id) IN
            /\ selectedInventoryId = id => st.selectedInventoryId = NoId
            /\ selectedInventoryId # id => st.selectedInventoryId = id
            /\ st.inventory = inventory
            /\ st.editMode
            /\ st.selectedStar = selectedStar

\* C14 witness: armForPlacement has just armed an entry that is in the
\* inventory while another entry is the displayed one.
C14_Witness ==
    /\ lastOp.op = "handleSelectInventoryStar"
    /\ editMode
    /\ selectedInventoryId # NoId
    /\ ~inventory[FindIndex(inventory, selectedInventoryId)].placed
    /\ selectedStar # NoStar
    /\ selectedStar.id # selectedInventoryId

C16_ArmOutsideEditModeIsNoOp ==
    ~editMode =>
        \A id \in InventoryIds :
            LET st == handleSelectInventoryStar(CState, id) IN
            /\ st.selectedInventoryId = selectedInventoryId
            /\ st.inventory = inventory
            /\ st.selectedStar = selectedStar
            /\ st.editMode = editMode

\* C16 witness: armForPlacement has just run outside edit mode; nothing is
\* armed and the star placed before is still displayed.
C16_Witness ==
    /\ lastOp.op = "handleSelectInventoryStar"
    /\ ~editMode
    /\ selectedInventoryId = NoId
    /\ selectedStar # NoStar
    /\ NumPlaced(inventory) > 0

\* C17: with no armed id, or outside edit mode, placeAt(p) changes nothing:
\* the inventory, the armed id, the displayed selection and the edit mode
\* are the ones before the call.
C17_PlaceAtWithoutArmedIsNoOp ==
    (~editMode \/ selectedInventoryId = NoId) =>
        \A pos \in RawPositions :
            LET st == handlePlaneClick(CState, pos) IN
            /\ st.inventory = inventory
            /\ st.selectedInventoryId = selectedInventoryId
            /\ st.selectedStar = selectedStar
            /\ st.editMode = editMode

\* C17 witness: placeAt has just run in edit mode with no armed id, and the
\* star displayed before is still displayed.
C17_Witness ==
    /\ lastOp.op = "handlePlaneClick"
    /\ editMode
    /\ selectedInventoryId = NoId
    /\ selectedStar # NoStar

\* C18: in and out of edit mode, returnToInventory(id) leaves entry id not
\* placed and without a position, its other fields and every other entry as
\* they were; the armed id is cleared when it is id and kept otherwise; the
\* displayed selection is cleared when it is entry id and kept otherwise.
C18_ReturnClearsOnlyItsOwn ==
    \A id \in InventoryIds :
        LET st == handleReturnToInventory(CState, id)
            b == FindIndex(inventory, id)
        IN /\ ~st.inventory[b].placed
           /\ st.inventory[b].position = NoPos
           /\ st.inventory[b] = [inventory[b] EXCEPT !.placed = FALSE,
                                                     !.position = NoPos]
           /\ Len(st.inventory) = Len(inventory)
           /\ \A n \in 1..Len(inventory) : n # b => st.inventory[n] = inventory[n]
           /\ st.editMode = editMode
           /\ selectedInventoryId = id => st.selectedInventoryId = NoId
           /\ selectedInventoryId # id
                 => st.selectedInventoryId = selectedInventoryId
           /\ (selectedStar # NoStar /\ selectedStar.id = id)
                 => st.selectedStar = NoStar
           /\ (selectedStar = NoStar \/ selectedStar.id # id)
                 => st.selectedStar = selectedStar

\* C18 witness: returnToInventory has just run while one entry is armed and
\* another is displayed, and both still are.
C18_Witness ==
    /\ lastOp.op = "handleReturnToInventory"
    /\ selectedInventoryId # NoId
    /\ selectedStar # NoStar
    /\ selectedStar.id # selectedInventoryId
    /\ NumPlaced(inventory) < MaxPlaced

\* C19: a click on the background of the constellation scene leaves no
\* displayed selection and no armed id, and the inventory and the edit mode
\* as they were.
C19_BackgroundClickKeepsPlacements ==
    LET st == clearSelection(CState) IN
    /\ st.selectedStar = NoStar
    /\ st.selectedInventoryId = NoId
    /\ \A n \in 1..Len(inventory) :
          /\ st.inventory[n].placed = inventory[n].placed
          /\ st.inventory[n].position = inventory[n].position
    /\ st.inventory = inventory
    /\ st.editMode = editMode

\* C19 witness: the background has just been clicked in edit mode; nothing
\* is displayed or armed and stars are still placed.
C19_Witness ==
    /\ lastOp.op = "clearSelection"
    /\ editMode
    /\ selectedStar = NoStar
    /\ selectedInventoryId = NoId
    /\ NumPlaced(inventory) = MaxPlaced
    /\ Len(placedStars(inventory)) = MaxPlaced

\* the entry as it is in the inventory list
Unplaced(s) == [s EXCEPT !.placed = FALSE, !.position = NoPos]

\* C20: the inventory holds 7 entries, common-0 .. common-4 then uncommon-0
\* and uncommon-1, all unplaced after the mount; in every state each entry
\* differs from the one created at the mount in its placed flag and position
\* at most.
C20_InventoryIsFixed ==
    /\ Len(inventory) = 7
    /\ [n \in 1..7 |-> inventory[n].id]
          = <<"common-0", "common-1", "common-2", "common-3", "common-4",
              "uncommon-0", "uncommon-1">>
    /\ \A n \in 1..5 : inventory[n].rarity = "common"
    /\ \A n \in 6..7 : inventory[n].rarity = "uncommon"
    /\ \A n \in 1..7 : Unplaced(inventory[n]) = InitialInventory[n]
    /\ lastOp.op = "mount" =>
          \A n \in 1..7 : ~inventory[n].placed /\ inventory[n].position = NoPos

\* C20 witness: a star was placed and returned and other stars are placed.
C20_Witness ==
    /\ lastOp.op = "handleReturnToInventory"
    /\ NumPlaced(inventory) > 0
    /\ selectedStar # NoStar
    /\ inventory[FindIndex(inventory, selectedStar.id)].placed

\* C21: a click on a placed star makes its entry the displayed selection
\* and changes no entry; in edit mode the entry becomes the armed one, and a
\* placeAt(p) after the click leaves that entry, and no other, placed at
\* snap(p); outside edit mode the armed id stays as it is.
C21_PlacedStarClickDisplaysAndArms ==
    \A b \in 1..Len(inventory) :
        (inventory[b].placed /\ inventory[b].position # NoPos) =>
            LET id == inventory[b].id
                st == handlePlacedStarClick(CState, id)
            IN /\ st.selectedStar = inventory[b]
               /\ st.inventory = inventory
               /\ st.editMode = editMode
               /\ ~editMode => st.selectedInventoryId = selectedInventoryId
               /\ editMode =>
                     /\ st.selectedInventoryId = id
                     /\ \A pos \in RawPositions :
                           LET s2 == handlePlaneClick(st, pos) IN
                           /\ s2.inventory[b]
                                 = [inventory[b] EXCEPT
                                       !.position = snapToGrid(pos, 1)]
                           /\ \A n \in 1..Len(inventory) :
                                 n # b => s2.inventory[n] = inventory[n]
                           /\ s2.selectedStar = s2.inventory[b]

\* C21 witness: a placed star has just been clicked in edit mode while
\* another entry was displayed; it is displayed and armed, and a placeAt
\* would move it.
C21_Witness ==
    /\ lastOp.op = "handlePlacedStarClick"
    /\ editMode
    /\ selectedStar # NoStar
    /\ selectedInventoryId = selectedStar.id
    /\ selectedStar.placed
    /\ NumPlaced(inventory) = MaxPlaced
    /\ \E pos \in RawPositions :
          handlePlaneClick(CState, pos).selectedStar.position
             # selectedStar.position

\* C31: in every reachable state of the constellation scene, edit mode off
\* implies that no id is armed.
C31_ArmedOnlyInEditMode ==
    ~editMode => selectedInventoryId = NoId

\* C31 witness: a placed star has just been clicked outside edit mode; it is
\* displayed and nothing is armed.
C31_Witness ==
    /\ lastOp.op = "handlePlacedStarClick"
    /\ ~editMode
    /\ selectedStar # NoStar
    /\ selectedStar.placed
    /\ selectedInventoryId = NoId

\* C32: in every reachable state an inventory entry is placed if and only
\* if it has a position, and every stored position is a point of three
\* integers, which snapping leaves where it is.
C32_PlacedIffPositionOnGrid ==
    \A n \in 1..Len(inventory) :
        /\ inventory[n].placed <=> inventory[n].position # NoPos
        /\ inventory[n].position # NoPos =>
              /\ DOMAIN inventory[n].position = 1..3
              /\ \A i \in 1..3 : inventory[n].position[i] \in Int
              /\ snapToGrid([i \in 1..3 |-> 10 * inventory[n].position[i]], 1)
                    = inventory[n].position

\* C32 witness: in edit mode an entry has just been returned and has no
\* position, while another entry is placed at a grid point.
C32_Witness ==
    /\ lastOp.op = "handleReturnToInventory"
    /\ retArmPlace.stage = 1
    /\ ~inventory[FindIndex(inventory, retArmPlace.id)].placed
    /\ inventory[FindIndex(inventory, retArmPlace.id)].position = NoPos
    /\ \E n \in 1..Len(inventory) :
          /\ inventory[n].placed
          /\ inventory[n].position \in {<<1, 3, 0>>, <<0, 1, -1>>}

\* C33: in every reachable state the displayed selection, when set, equals
\* an inventory entry that is placed and has the same position, so the
\* camera target is the position of a placed entry.
C33_DisplayedIsPlacedEntry ==
    selectedStar # NoStar =>
        LET b == FindIndex(inventory, selectedStar.id) IN
        /\ b # 0
        /\ inventory[b].placed
        /\ inventory[b].position # NoPos
        /\ inventory[b].position = selectedStar.position
        /\ inventory[b] = selectedStar
        /\ targetPos(CState) = inventory[b].position

\* C33 witness: in edit mode an entry other than the displayed one has just
\* been returned; the displayed one is still placed where it is shown.
C33_Witness ==
    /\ lastOp.op = "handleReturnToInventory"
    /\ retArmPlace.stage = 1
    /\ selectedStar # NoStar
    /\ selectedStar.id # retArmPlace.id
    /\ inventory[FindIndex(inventory, selectedStar.id)].placed
    /\ targetPos(CState)
          = inventory[FindIndex(inventory, selectedStar.id)].position

\* the entries whose placed flag or position differs between two inventories
PlacementChanged(before, after) ==
    {n \in 1..Len(before) :
        \/ after[n].placed # before[n].placed
        \/ after[n].position # before[n].position}

\* C35: placeAt changes the placed flag and position of no entry but the
\* armed one, and returnToInventory(id) of no entry but the one with that
\* id: at most one entry changes, and the inventory keeps its length.
C35_PlacementTouchesOneEntry ==
    /\ \A pos \in RawPositions :
          LET st == handlePlaneClick(CState, pos) IN
          /\ Len(st.inventory) = Len(inventory)
          /\ Cardinality(PlacementChanged(inventory, st.inventory)) <= 1
          /\ \A n \in PlacementChanged(inventory, st.inventory) :
                inventory[n].id = selectedInventoryId
    /\ \A id \in InventoryIds :
          LET st == handleReturnToInventory(CState, id) IN
          /\ Len(st.inventory) = Len(inventory)
          /\ Cardinality(PlacementChanged(inventory, st.inventory)) <= 1
          /\ \A n \in PlacementChanged(inventory, st.inventory) :
                inventory[n].id = id

\* C35 witness: placeAt has just put the armed entry on a grid point that
\* another placed entry holds, and that entry is still there.
C35_Witness ==
    /\ lastOp.op = "handlePlaneClick"
    /\ editMode
    /\ selectedInventoryId # NoId
    /\ \E n \in 1..Len(inventory) :
          /\ inventory[n].id # selectedInventoryId
          /\ inventory[n].placed
          /\ inventory[n].position
                = inventory[FindIndex(inventory, selectedInventoryId)].position
          /\ inventory[n].position = snapToGrid(lastOp.arg, 1)

-----------------------------------------------------------------------------
(* Strings.  A string is a tuple of one-character strings; a literal that   *)
(* the code never takes apart is a single element.                          *)

NullStr == <<"null">>          \* JS null where a string is expected
Undefined == <<"undefined">>   \* a property the JSON record does not have

UpperOf ==
    [a |-> "A", b |-> "B", f |-> "F", g |-> "G", k |-> "K", m |-> "M", o |-> "O",
     x |-> "X", v |-> "V"]
LowerOf ==
    [A |-> "a", B |-> "b", F |-> "f", G |-> "g", K |-> "k", M |-> "m", O |-> "o",
     X |-> "x", V |-> "v"]

\* String.prototype.toUpperCase / toLowerCase, on one character and on a string
CharToUpperCase(c) == IF c \in DOMAIN UpperOf THEN UpperOf[c] ELSE c
CharToLowerCase(c) == IF c \in DOMAIN LowerOf THEN LowerOf[c] ELSE c
toUpperCase(str) == [i \in 1..Len(str) |-> CharToUpperCase(str[i])]
toLowerCase(str) == [i \in 1..Len(str) |-> CharToLowerCase(str[i])]

\* String.prototype.trim
trim(str) ==
    LET keep == {i \in 1..Len(str) : str[i] # " "} IN
    IF keep = {} THEN <<>>
    ELSE SubSeq(str, CHOOSE i \in keep : \A j \in keep : i <= j,
                     CHOOSE i \in keep : \A j \in keep : j <= i)

\* a string in a boolean context: null, undefined and "" are falsy
Truthy(str) == str # NullStr /\ str # Undefined /\ str # <<>>

\* a || b on strings
OrElse(a, b) == IF Truthy(a) THEN a ELSE b

-----------------------------------------------------------------------------
(* Catalog projector *)

SpectralClasses == {"O", "B", "A", "F", "G", "K", "M"}

\* tempRange in Kelvin, radiusRangeSun in hundredths of a Sun radius
SPECTRAL_CONFIG ==
    [O |-> [tempRange |-> <<30000, 50000>>, radiusRangeSun |-> <<600, 1000>>,
            label |-> "O-type blue star"],
     B |-> [tempRange |-> <<10000, 30000>>, radiusRangeSun |-> <<200, 600>>,
            label |-> "B-type blue white star"],
     A |-> [tempRange |-> <<7500, 10000>>, radiusRangeSun |-> <<140, 200>>,
            label |-> "A-type white star"],
     F |-> [tempRange |-> <<6000, 7500>>, radiusRangeSun |-> <<115, 140>>,
            label |-> "F-type yellow white star"],
     G |-> [tempRange |-> <<5200, 6000>>, radiusRangeSun |-> <<90, 115>>,
            label |-> "G-type yellow star"],
     K |-> [tempRange |-> <<3700, 5200>>, radiusRangeSun |-> <<70, 90>>,
            label |-> "K-type orange star"],
     M |-> [tempRange |-> <<2400, 3700>>, radiusRangeSun |-> <<10, 70>>,
            label |-> "M-type red dwarf"]]

\* a magnitude is an integer number of 1/MagUnit
MagUnit == 100 * 1000

\* the ladder with exclusive upper bounds
MagnitudeLadder_exclusive(m) ==
    IF m < 0 THEN "B"
    ELSE IF 10 * m < 15 * MagUnit THEN "A"
    ELSE IF m < 3 * MagUnit THEN "F"
    ELSE IF 10 * m < 45 * MagUnit THEN "G"
    ELSE IF m < 6 * MagUnit THEN "K"
    ELSE "M"

\* the magnitude ladder, shared text of the three copies of the function
MagnitudeLadder(m) ==
    IF m <= 0 THEN "B"
    ELSE IF 10 * m <= 15 * MagUnit THEN "A"
    ELSE IF m <= 3 * MagUnit THEN "F"
    ELSE IF 10 * m <= 45 * MagUnit THEN "G"
    ELSE IF m <= 6 * MagUnit THEN "K"
    ELSE "M"

\* inferSpectralClass without the toUpperCase
inferSpectralClass_caseSensitive(star) ==
    LET raw == trim(IF Truthy(star.spect) THEN star.spect ELSE <<>>) IN
    IF Len(raw) > 0 /\ raw[1] \in SpectralClasses
    THEN raw[1]
    ELSE MagnitudeLadder(star.mag)

\* part_000 109-125
inferSpectralClass(star) ==
    LET raw == trim(IF Truthy(star.spect) THEN star.spect ELSE <<>>) IN
    IF Len(raw) > 0 /\ CharToUpperCase(raw[1]) \in SpectralClasses
    THEN CharToUpperCase(raw[1])
    ELSE MagnitudeLadder(star.mag)

\* StarField.tsx 111-128
inferSpectralClassStarField(star) ==
    LET raw == trim(IF Truthy(star.spect) THEN star.spect ELSE <<>>) IN
    IF Len(raw) > 0 /\ CharToUpperCase(raw[1]) \in SpectralClasses
    THEN CharToUpperCase(raw[1])
    ELSE MagnitudeLadder(star.mag)

\* GalaxyCanvas.tsx 70-88
inferSpectralClassFromCatalog(star) ==
    LET raw == trim(IF Truthy(star.spect) THEN star.spect ELSE <<>>) IN
    IF Len(raw) > 0 /\ CharToUpperCase(raw[1]) \in SpectralClasses
    THEN CharToUpperCase(raw[1])
    ELSE MagnitudeLadder(star.mag)

-----------------------------------------------------------------------------
(* Positions.  A scene coordinate is an integer number of 1/PosDen; the     *)
(* catalog vectors of the model have integer norms that divide NormLcm.     *)

NormLcm == 2 * 5 * 7
PosDen == RandSteps * NormLcm

Origin == <<0, 0, 0>>

\* Math.sqrt of a perfect square
MathSqrt(n) == CHOOSE r \in 0..n : r * r = n

\* Vector3.length()
Length(v) == MathSqrt(v[1] * v[1] + v[2] * v[2] + v[3] * v[3])

\* a catalog vector, as it is, in scene units
AsScene(v) == [i \in 1..3 |-> v[i] * PosDen]

VIS_MIN == 20
VIS_MAX == 85

\* remapPosition(x, y, z); k is the Math.random() draw of randInRange.
\* rOrig is the norm, or 1e-6 for the zero vector.
remapPosition(v, k) ==
    LET norm == Length(v)
        targetR == VIS_MIN * RandSteps + k * (VIS_MAX - VIS_MIN)
    IN IF norm = 0
       THEN [i \in 1..3 |-> ((v[i] * 1000000) * targetR) * NormLcm]
       ELSE [i \in 1..3 |-> v[i] * targetR * (NormLcm \div norm)]

-----------------------------------------------------------------------------
(* The catalog: ../data/stars.json as build-stars.mjs writes it (a name and  *)
(* a spectral type are trimmed and not empty, or null).  distParsec is in    *)
(* hundredths of a parsec.  Nothing makes the names of a catalog distinct:   *)
(* the last record of the pool has the name and the distance of the first.  *)

CatalogPool ==
    << [name |-> <<"A", "b">>, distParsec |-> 270, mag |-> 150000,
        spect |-> <<"g", "2">>, x |-> 3, y |-> 4, z |-> 0],
       [name |-> NullStr, distParsec |-> 130, mag |-> -10,
        spect |-> NullStr, x |-> 0, y |-> 0, z |-> 2],
       [name |-> <<"B">>, distParsec |-> 0, mag |-> 450000,
        spect |-> <<"G", "2", "V">>, x |-> 0, y |-> 0, z |-> 0],
       [name |-> <<"a", "B">>, distParsec |-> 130, mag |-> 600001,
        spect |-> <<"x">>, x |-> 2, y |-> 3, z |-> 6],
       [name |-> <<"A", "b">>, distParsec |-> 270, mag |-> 2 * MagUnit,
        spect |-> <<"K", "5">>, x |-> 0, y |-> 3, z |-> 4] >>

\* the catalogs of the model: CatalogSize records of the pool in a row,
\* starting anywhere
Catalogs ==
    { [n \in 1..CatalogSize |-> CatalogPool[((first + n - 2) % Len(CatalogPool)) + 1]]
        : first \in 1..Len(CatalogPool) }

\* the text typed into the search box
SearchTexts == { <<>>, <<" ">>, <<"a", "b">>, <<"B">>, <<"b", " ">> }

\* the n-th call of Math.random() of a run that starts at draw r0
DrawAt(r0, n) == (r0 + n) % RandSteps

\* randInRange(min, max) for the draw k, in units of 1 / RandSteps
randInRange(min, max, k) == min * RandSteps + k * (max - min)

\* Number.prototype.toFixed(2) of a radius given in 1/(100 * RandSteps): the
\* nearest number of hundredths
toFixed2(radius) == (2 * radius + RandSteps) \div (2 * RandSteps)

MaxRendered == 2500

\* the sort with equal distances in reverse catalog order
RECURSIVE SortedByDistance_tiesReversed(_, _)
SortedByDistance_tiesReversed(cat, left) ==
    IF left = {} THEN <<>>
    ELSE LET n == CHOOSE a \in left :
                    \A b \in left :
                        \/ cat[a].distParsec < cat[b].distParsec
                        \/ cat[a].distParsec = cat[b].distParsec /\ a >= b
         IN <<n>> \o SortedByDistance_tiesReversed(cat, left \ {n})

\* [...raw].sort((a, b) => a.distParsec - b.distParsec): the catalog indices
\* in ascending distance, equal distances in catalog order
RECURSIVE SortedByDistance(_, _)
SortedByDistance(cat, left) ==
    IF left = {} THEN <<>>
    ELSE LET n == CHOOSE a \in left :
                    \A b \in left :
                        \/ cat[a].distParsec < cat[b].distParsec
                        \/ cat[a].distParsec = cat[b].distParsec /\ a <= b
         IN <<n>> \o SortedByDistance(cat, left \ {n})

\* Array.prototype.slice(0, end) for end >= 0
slice(seq, end) == SubSeq(seq, 1, IF Len(seq) < end THEN Len(seq) ELSE end)

\* sorted.slice(0, cap) of the sorted catalog
NearestFirst(cat, cap) == slice(SortedByDistance(cat, DOMAIN cat), cap)

\* which catalog record each rendered star comes from
RenderOrder(v, cat) ==
    IF v = "controls"
    THEN NearestFirst(cat, MaxRendered)
    ELSE [n \in 1..Len(cat) |-> n]

\* part_000 153-189: the StarData of the record s at index `index`
ProjectSorted(s, index, r0) ==
    LET cls == inferSpectralClass(s)
        cfg == SPECTRAL_CONFIG[cls]
        temperature == RoundRandInRange(cfg.tempRange[1], cfg.tempRange[2],
                                        DrawAt(r0, 3 * index))
        radiusSun == randInRange(cfg.radiusRangeSun[1], cfg.radiusRangeSun[2],
                                 DrawAt(r0, 3 * index + 1))
    IN [position   |-> remapPosition(<<s.x, s.y, s.z>>, DrawAt(r0, 3 * index + 2)),
        meshScale  |-> radiusSun * 9,
        attributes |-> [name |-> IF Truthy(s.name) /\ Len(trim(s.name)) > 0
                                 THEN s.name
                                 ELSE <<"Unnamed #", ToString(index)>>,
                        status |-> "unclaimed",
                        spectralClass |-> cls,
                        temperature |-> temperature,
                        radiusSun |-> radiusSun]]

\* StarField.tsx 138-168
ProjectRaw(s, index, r0) ==
    LET cls == inferSpectralClassStarField(s)
        cfg == SPECTRAL_CONFIG[cls]
        temp == RoundRandInRange(cfg.tempRange[1], cfg.tempRange[2],
                                 DrawAt(r0, 3 * index))
        radiusSun == randInRange(cfg.radiusRangeSun[1], cfg.radiusRangeSun[2],
                                 DrawAt(r0, 3 * index + 1))
    IN [position   |-> AsScene(<<s.x, s.y, s.z>>),
        meshScale  |-> radiusSun * 5,
        attributes |-> [name |-> OrElse(s.name, <<"Unnamed star">>),
                        status |-> "unclaimed",
                        spectralClass |-> cls,
                        temperature |-> temp,
                        radiusSun |-> radiusSun]]

\* StarField: the useMemo of either file
Project(v, cat, r0) ==
    LET order == RenderOrder(v, cat) IN
    [n \in 1..Len(order) |->
        IF v = "controls" THEN ProjectSorted(cat[order[n]], n - 1, r0)
        ELSE ProjectRaw(cat[order[n]], n - 1, r0)]

\* Star.handleClick: the StarSelectionInfo handed to onSelect
ClickInfo(data) ==
    [position    |-> data.position,
     name        |-> data.attributes.name,
     status      |-> data.attributes.status,
     type        |-> data.attributes.spectralClass \o "-type star",
     temperature |-> data.attributes.temperature,
     size        |-> <<toFixed2(data.attributes.radiusSun), " x Sun radius">>]

-----------------------------------------------------------------------------
(* Galaxy scene *)

\* a mix is an integer number of 1/MixDen; a frame takes 3/25 of the way
MixDen == 25 ^ MaxFrames

NoWarn == <<>>

\* stars.find((s) => s.name && s.name.toLowerCase() === searchValue.toLowerCase()):
\* the first catalog index, 0 when there is none
FindByName(cat, text) ==
    LET hits == {n \in 1..Len(cat) :
                    Truthy(cat[n].name)
                    /\ toLowerCase(cat[n].name) = toLowerCase(text)}
    IN IF hits = {} THEN 0 ELSE CHOOSE n \in hits : \A m \in hits : n <= m

\* performSearch of GalaxyCanvas.tsx 158-190: the info of targetStar; k is the
\* first of its two Math.random() draws
SearchInfoControls(targetStar, k) ==
    LET spectralClass == inferSpectralClassFromCatalog(targetStar)
        cfg == SPECTRAL_CONFIG[spectralClass]
        temperature == RoundRandInRange(cfg.tempRange[1], cfg.tempRange[2], k)
        radiusSun == randInRange(cfg.radiusRangeSun[1], cfg.radiusRangeSun[2],
                                 DrawAt(k, 1))
        v == <<targetStar.x, targetStar.y, targetStar.z>>
        dir == IF Length(v) = 0 THEN <<0, 0, 1>> ELSE v
        focusDistance == 50
        pos == [i \in 1..3 |->
                  dir[i] * focusDistance * RandSteps * (NormLcm \div Length(dir))]
    IN [position    |-> pos,
        name        |-> OrElse(targetStar.name, <<"Unnamed star">>),
        status      |-> "unclaimed",
        type        |-> cfg.label,
        temperature |-> temperature,
        size        |-> <<toFixed2(radiusSun), " x Sun radius">>]

\* a property of a catalog record, undefined when the JSON has none
Property(rec, field) == IF field \in DOMAIN rec THEN rec[field] ELSE Undefined

\* performSearch of GalaxyCanvas.tsx 367-376
SearchInfoFocus(target) ==
    [position    |-> AsScene(<<target.x, target.y, target.z>>),
     name        |-> OrElse(target.name, <<"Unnamed star">>),
     status      |-> "unclaimed",
     type        |-> IF Property(target, "type") = Undefined THEN "Unknown"
                     ELSE target.type,
     temperature |-> IF Property(target, "temperature") = Undefined THEN 0
                     ELSE target.temperature,
     size        |-> IF Property(target, "size") = Undefined THEN <<>>
                     ELSE target.size]

\* focusCameraOn(controls, position, distance): target and camera position
focusCameraOn(position, distance) ==
    [target |-> position,
     camera |-> [position EXCEPT ![3] = position[3] + distance * PosDen]]

\* a selection that engages the focus and leaves its target where it is
Select_keepsTarget(info) ==
    /\ galaxySelected' = info
    /\ IF variant = "controls"
       THEN /\ controlsTarget' = focusCameraOn(info.position, 30).target
            /\ cameraPosition' = focusCameraOn(info.position, 30).camera
            /\ UNCHANGED focus
       ELSE /\ focus' = [focus EXCEPT !.enabled = TRUE]
            /\ UNCHANGED <<controlsTarget, cameraPosition>>

\* setSelectedStar(info) with what each GalaxyCanvas does to its focus
Select(info) ==
    /\ galaxySelected' = info
    /\ IF variant = "controls"
       THEN /\ controlsTarget' = focusCameraOn(info.position, 30).target
            /\ cameraPosition' = focusCameraOn(info.position, 30).camera
            /\ UNCHANGED focus
       ELSE /\ focus' = [enabled |-> TRUE, target |-> info.position]
            /\ UNCHANGED <<controlsTarget, cameraPosition>>

GalaxyMounted(v) ==
    /\ variant = v
    /\ catalog \in Catalogs
    /\ \E r0 \in 0..(RandSteps - 1) : stars = Project(v, catalog, r0)
    /\ galaxySelected = NoStar
    /\ searchValue = <<>>
    /\ pending = [t \in SearchTexts |-> 0]
    /\ focus = IF v = "focus" THEN [target |-> Origin, enabled |-> FALSE]
               ELSE NoStar
    /\ controlsTarget = IF v = "controls" THEN Origin ELSE NoPos
    /\ cameraPosition = IF v = "controls" THEN <<0, 0, 120 * PosDen>>
                        ELSE <<0, 0, 45 * PosDen>>
    /\ focusMix = IF v = "controls" THEN [n \in 1..Len(stars) |-> MixDen]
                  ELSE <<>>
    /\ consoleWarn = NoWarn
    /\ galaxyOp = [op |-> "mount"]
    /\ selectedCat = 0
    /\ ConstellationUnmounted
    /\ InferIdle

\* Star.handleClick -> handleStarSelect
StarClick ==
    \E n \in 1..Len(stars) :
        /\ Select(ClickInfo(stars[n]))
        /\ galaxyOp' = [op |-> "handleStarSelect"]
        /\ selectedCat' = RenderOrder(variant, catalog)[n]
        /\ consoleWarn' = NoWarn
        /\ UNCHANGED <<variant, catalog, stars, searchValue, pending, focusMix,
                       constVars, inferVars>>

\* handleVoidClick that clears the selection and leaves the focus where it is
VoidClick_keepsFocus ==
    /\ galaxySelected' = NoStar
    /\ galaxyOp' = [op |-> "handleVoidClick", deselected |-> selectedCat]
    /\ selectedCat' = 0
    /\ consoleWarn' = NoWarn
    /\ UNCHANGED <<variant, catalog, stars, searchValue, pending, focusMix,
                   focus, controlsTarget, cameraPosition, constVars, inferVars>>

\* Canvas onPointerMissed -> handleVoidClick
VoidClick ==
    /\ galaxySelected' = NoStar
    /\ IF variant = "controls"
       THEN /\ controlsTarget' = Origin
            /\ cameraPosition' = <<0, 0, 120 * PosDen>>
            /\ UNCHANGED focus
       ELSE /\ focus' = [enabled |-> FALSE, target |-> Origin]
            /\ UNCHANGED <<controlsTarget, cameraPosition>>
    /\ galaxyOp' = [op |-> "handleVoidClick", deselected |-> selectedCat]
    /\ selectedCat' = 0
    /\ consoleWarn' = NoWarn
    /\ UNCHANGED <<variant, catalog, stars, searchValue, pending, focusMix,
                   constVars, inferVars>>

\* input onChange -> setSearchValue
SetSearchValue ==
    \E text \in SearchTexts :
        /\ searchValue' = text
        /\ galaxyOp' = [op |-> "setSearchValue"]
        /\ consoleWarn' = NoWarn
        /\ UNCHANGED <<variant, catalog, stars, galaxySelected, pending, focus,
                       controlsTarget, cameraPosition, focusMix, selectedCat,
                       constVars, inferVars>>

NumPending == LET Sum[S \in SUBSET SearchTexts] ==
                      IF S = {} THEN 0
                      ELSE LET t == CHOOSE t \in S : TRUE IN
                           pending[t] + Sum[S \ {t}]
              IN Sum[SearchTexts]

\* performSearch up to its await: a blank text returns at once, any other
\* text starts an import() that holds the text the call closed over
PerformSearch ==
    /\ IF Len(trim(searchValue)) = 0
       THEN /\ UNCHANGED pending
            /\ galaxyOp' = [op |-> "performSearch", started |-> FALSE]
       ELSE /\ NumPending < MaxPending
            /\ pending' = [pending EXCEPT ![searchValue] = @ + 1]
            /\ galaxyOp' = [op |-> "performSearch", started |-> TRUE]
    /\ consoleWarn' = NoWarn
    /\ UNCHANGED <<variant, catalog, stars, galaxySelected, searchValue, focus,
                   controlsTarget, cameraPosition, focusMix, selectedCat,
                   constVars, inferVars>>

\* the completion of a lookup, with the number of lookups it leaves pending
\* and, when it comes right after a hit or a click on empty space, that step
\* and the star selected by it; such a step happened while this lookup was
\* pending
Completion(op) ==
    [op |-> op, left |-> NumPending - 1,
     follows |-> IF galaxyOp.op \in {"performSearch.hit", "handleVoidClick"}
                 THEN [op |-> galaxyOp.op, cat |-> selectedCat]
                 ELSE [op |-> "other", cat |-> 0]]

\* performSearch whose hit is dropped when a star is selected already
SearchResolve_keepsSelection ==
    \E text \in SearchTexts :
        /\ pending[text] > 0
        /\ pending' = [pending EXCEPT ![text] = @ - 1]
        /\ LET found == FindByName(catalog, text) IN
           IF found = 0
           THEN /\ consoleWarn' = <<"Star not found:", text>>
                /\ galaxyOp' = Completion("performSearch.miss")
                /\ UNCHANGED <<galaxySelected, focus, controlsTarget,
                               cameraPosition, selectedCat>>
           ELSE /\ consoleWarn' = NoWarn
                /\ galaxyOp' = Completion("performSearch.hit")
                /\ selectedCat' = found
                /\ IF galaxySelected # NoStar
                   THEN UNCHANGED <<galaxySelected, focus, controlsTarget,
                                    cameraPosition>>
                   ELSE IF variant = "controls"
                   THEN \E k \in 0..(RandSteps - 1) :
                            Select(SearchInfoControls(catalog[found], k))
                   ELSE Select(SearchInfoFocus(catalog[found]))
        /\ UNCHANGED <<variant, catalog, stars, searchValue, focusMix,
                       constVars, inferVars>>

\* performSearch that looks up the text of the search box as it is when the
\* import() completes
SearchResolve_readsCurrentText ==
    \E text \in SearchTexts :
        /\ pending[text] > 0
        /\ pending' = [pending EXCEPT ![text] = @ - 1]
        /\ LET found == FindByName(catalog, searchValue) IN
           IF found = 0
           THEN /\ consoleWarn' = <<"Star not found:", searchValue>>
                /\ galaxyOp' = Completion("performSearch.miss")
                /\ UNCHANGED <<galaxySelected, focus, controlsTarget,
                               cameraPosition, selectedCat>>
           ELSE /\ consoleWarn' = NoWarn
                /\ galaxyOp' = Completion("performSearch.hit")
                /\ selectedCat' = found
                /\ IF variant = "controls"
                   THEN \E k \in 0..(RandSteps - 1) :
                            Select(SearchInfoControls(catalog[found], k))
                   ELSE Select(SearchInfoFocus(catalog[found]))
        /\ UNCHANGED <<variant, catalog, stars, searchValue, focusMix,
                       constVars, inferVars>>

\* performSearch whose miss also drops the selection
SearchResolve_missDeselects ==
    \E text \in SearchTexts :
        /\ pending[text] > 0
        /\ pending' = [pending EXCEPT ![text] = @ - 1]
        /\ LET found == FindByName(catalog, text) IN
           IF found = 0
           THEN /\ consoleWarn' = <<"Star not found:", text>>
                /\ galaxyOp' = Completion("performSearch.miss")
                /\ galaxySelected' = NoStar
                /\ selectedCat' = 0
                /\ UNCHANGED <<focus, controlsTarget, cameraPosition>>
           ELSE /\ consoleWarn' = NoWarn
                /\ galaxyOp' = Completion("performSearch.hit")
                /\ selectedCat' = found
                /\ IF variant = "controls"
                   THEN \E k \in 0..(RandSteps - 1) :
                            Select(SearchInfoControls(catalog[found], k))
                   ELSE Select(SearchInfoFocus(catalog[found]))
        /\ UNCHANGED <<variant, catalog, stars, searchValue, focusMix,
                       constVars, inferVars>>

\* performSearch after its await, for a call that closed over `text`
SearchResolve ==
    \E text \in SearchTexts :
        /\ pending[text] > 0
        /\ pending' = [pending EXCEPT ![text] = @ - 1]
        /\ LET found == FindByName(catalog, text) IN
           IF found = 0
           THEN /\ consoleWarn' = <<"Star not found:", text>>
                /\ galaxyOp' = Completion("performSearch.miss")
                /\ UNCHANGED <<galaxySelected, focus, controlsTarget,
                               cameraPosition, selectedCat>>
           ELSE /\ consoleWarn' = NoWarn
                /\ galaxyOp' = Completion("performSearch.hit")
                /\ selectedCat' = found
                /\ IF variant = "controls"
                   THEN \E k \in 0..(RandSteps - 1) :
                            Select(SearchInfoControls(catalog[found], k))
                   ELSE Select(SearchInfoFocus(catalog[found]))
        /\ UNCHANGED <<variant, catalog, stars, searchValue, focusMix,
                       constVars, inferVars>>

\* selectedName={selectedStar?.name ?? null}
selectedName == IF galaxySelected = NoStar THEN NullStr ELSE galaxySelected.name

\* the target with every star grey while nothing is selected
targetMix_greyWhenIdle(data, selName) ==
    IF Truthy(selName) /\ data.attributes.name = selName THEN 1 ELSE 0

\* Star.useFrame 250-259: the target of the mix of the star `data`
targetMix(data, selName) ==
    LET hasSelection == Truthy(selName)
        isSelected == hasSelection /\ data.attributes.name = selName
        shouldBeColorful == ~hasSelection \/ isSelected
    IN IF shouldBeColorful THEN 1 ELSE 0

\* the mix with a step of 1.2 in the place of 0.12
nextMix_overshoot(mix, target) == mix + (30 * (target * MixDen - mix)) \div 25

\* the mix moved by a fixed 0.12 toward the target (a linear approach)
nextMix_linear(mix, target) ==
    IF mix = target * MixDen THEN mix
    ELSE IF mix > target * MixDen THEN mix - (3 * MixDen) \div 25
    ELSE mix + (3 * MixDen) \div 25

\* focusMixRef.current += (targetMix - focusMixRef.current) * 0.12
nextMix(mix, target) == mix + (3 * (target * MixDen - mix)) \div 25

\* one rendered frame: useFrame of every Star
\* a frame that also stores a new scale in every star
Frame_rescales ==
    /\ variant = "controls"
    /\ UNCHANGED focusMix
    /\ stars' = [n \in 1..Len(stars) |-> [stars[n] EXCEPT !.meshScale = @ + 1]]
    /\ galaxyOp' = [op |-> "frame"]
    /\ consoleWarn' = NoWarn
    /\ UNCHANGED <<variant, catalog, galaxySelected, searchValue, pending,
                   focus, controlsTarget, cameraPosition, selectedCat,
                   constVars, inferVars>>

\* useFrame of every Star, one frame.  The Star of part_000 eases its mix;
\* the Star of StarField.tsx has none.  The mesh position, colour and scale
\* a frame writes are functions of the clock and of the data and are not
\* kept in the state.
Frame ==
    /\ IF variant = "controls"
       THEN /\ \A n \in 1..Len(stars) :
                  (3 * (targetMix(stars[n], selectedName) * MixDen
                          - focusMix[n])) % 25 = 0
            /\ focusMix' = [n \in 1..Len(stars) |->
                               nextMix(focusMix[n],
                                       targetMix(stars[n], selectedName))]
       ELSE UNCHANGED focusMix
    /\ galaxyOp' = [op |-> "frame"]
    /\ consoleWarn' = NoWarn
    /\ UNCHANGED <<variant, catalog, stars, galaxySelected, searchValue, pending,
                   focus, controlsTarget, cameraPosition, selectedCat,
                   constVars, inferVars>>

GalaxyInit == GalaxyMounted("controls") \/ GalaxyMounted("focus")

GalaxyNext ==
    \/ StarClick
    \/ VoidClick
    \/ SetSearchValue
    \/ PerformSearch
    \/ SearchResolve

SpecGalaxy == GalaxyInit /\ [][GalaxyNext]_vars

TintInit == GalaxyMounted("controls") \/ GalaxyMounted("focus")

\* the tint engine reads the selection only through selectedName, and a
\* search selects by a catalog name, which is the display name of a rendered
\* star: clicks produce every selectedName a search can
TintNext ==
    \/ StarClick
    \/ VoidClick
    \/ Frame

SpecTint == TintInit /\ [][TintNext]_vars

-----------------------------------------------------------------------------
(* Properties of the galaxy scene *)

\* the rendered star that comes from catalog record c (0 when none does)
RenderIndex(c) ==
    LET order == RenderOrder(variant, catalog)
        at == {n \in 1..Len(order) : order[n] = c}
    IN IF at = {} THEN 0 ELSE CHOOSE n \in at : TRUE

\* C4: after a click on empty space nothing is selected and the focus is the
\* idle one: the focus state is not engaged with its target at the origin
\* (GalaxyCanvas 323-482), the orbit target is the origin and the camera is at
\* its default position (GalaxyCanvas 108-308); whatever was selected before.
C4_VoidClickReturnsToIdle ==
    galaxyOp.op = "handleVoidClick" =>
        /\ galaxySelected = NoStar
        /\ variant = "focus" => focus = [enabled |-> FALSE, target |-> Origin]
        /\ variant = "controls" =>
              /\ controlsTarget = Origin
              /\ cameraPosition = <<0, 0, 120 * PosDen>>

\* C4 witness: a click on empty space has just deselected a star.
C4_Witness ==
    /\ galaxyOp.op = "handleVoidClick"
    /\ galaxyOp.deselected # 0
    /\ galaxySelected = NoStar
    /\ variant = "focus"
    /\ focus = [enabled |-> FALSE, target |-> Origin]

\* C5: the record a successful search selects equals, but for the position,
\* the record a click on the same star selects.
C5_SearchSelectsWhatClickSelects ==
    (galaxyOp.op = "performSearch.hit" /\ RenderIndex(selectedCat) # 0) =>
        LET click == ClickInfo(stars[RenderIndex(selectedCat)]) IN
        /\ galaxySelected.name = click.name
        /\ galaxySelected.status = click.status
        /\ galaxySelected.type = click.type
        /\ galaxySelected.temperature = click.temperature
        /\ galaxySelected.size = click.size

\* C6: selecting again the star that is displayed, by a click or by a search,
\* displays the temperature and the size it already displays.
C6_ReselectionKeepsAttributes ==
    [][(/\ selectedCat # 0
        /\ selectedCat' = selectedCat
        /\ galaxyOp'.op \in {"handleStarSelect", "performSearch.hit"})
       => /\ galaxySelected'.temperature = galaxySelected.temperature
          /\ galaxySelected'.size = galaxySelected.size]_vars

\* a step of performSearch for a text that matches no catalog name: the
\* lookup missed, or the text was blank and no lookup was started
SearchMissed ==
    \/ galaxyOp'.op = "performSearch.miss"
    \/ /\ galaxyOp' = [op |-> "performSearch", started |-> FALSE]
       /\ FindByName(catalog, searchValue) = 0

SelectionAndFocusUnchanged ==
    UNCHANGED <<galaxySelected, focus, controlsTarget, cameraPosition,
                selectedCat, stars, focusMix, searchValue>>

\* C7 as stated: every search whose text matches no catalog name leaves the
\* selection and the focus as they were and writes a warning.
C7_EveryMissWarns ==
    [][SearchMissed => (SelectionAndFocusUnchanged /\ consoleWarn' # NoWarn)]_vars

\* C7 amended: a lookup that misses leaves the selection and the focus as they
\* were and warns "Star not found:" with the text searched for; a search
\* whose text is blank leaves them as they were too and writes nothing.
C7_MissKeepsStateAndLookupMissWarns ==
    [][SearchMissed =>
        /\ SelectionAndFocusUnchanged
        /\ galaxyOp'.op = "performSearch.miss" =>
              \E text \in SearchTexts :
                  /\ Len(trim(text)) > 0
                  /\ FindByName(catalog, text) = 0
                  /\ pending[text] > 0
                  /\ consoleWarn' = <<"Star not found:", text>>
        /\ galaxyOp'.op = "performSearch" =>
              /\ Len(trim(searchValue)) = 0
              /\ consoleWarn' = NoWarn
              /\ UNCHANGED pending]_vars

\* C7 witness: a lookup has just missed while a star is selected; the star is
\* still selected, the focus still on it, and the warning is written.
C7_Witness ==
    /\ galaxyOp.op = "performSearch.miss"
    /\ consoleWarn = <<"Star not found:", <<"b", " ">>>>
    /\ galaxySelected # NoStar
    /\ selectedCat # 0
    /\ variant = "focus"
    /\ focus.enabled

\* C8: the mix of every rendered star is within [0, 1].
C8_MixWithinBounds ==
    \A n \in DOMAIN focusMix : 0 <= focusMix[n] /\ focusMix[n] <= MixDen

\* C8 witness: a mix that went down for one frame and up for the next
\* (1 -> 0.88 -> 0.8944).
C8_Witness ==
    /\ galaxyOp.op = "frame"
    /\ \E n \in DOMAIN focusMix : focusMix[n] = 559 * (MixDen \div 625)

\* the target the tint engine is to ease the star n toward
ExpectedTarget(n) ==
    IF galaxySelected = NoStar \/ stars[n].attributes.name = galaxySelected.name
    THEN MixDen ELSE 0

NormSquared(v) == v[1] * v[1] + v[2] * v[2] + v[3] * v[3]

\* p is a positive multiple of the vector raw
SameDirection(p, raw) ==
    /\ p[1] * raw[2] = p[2] * raw[1]
    /\ p[1] * raw[3] = p[3] * raw[1]
    /\ p[2] * raw[3] = p[3] * raw[2]
    /\ p[1] * raw[1] + p[2] * raw[2] + p[3] * raw[3] > 0

\* C12: the position of every star the remapping StarField renders has a norm
\* within [20, 85], and is a positive multiple of the catalog position when
\* that is not the zero vector.
C12_RemappedWithinShellSameDirection ==
    variant = "controls" =>
        \A n \in DOMAIN stars :
            LET s == catalog[RenderOrder(variant, catalog)[n]]
                raw == <<s.x, s.y, s.z>>
                p == stars[n].position
            IN /\ (VIS_MIN * PosDen) * (VIS_MIN * PosDen) <= NormSquared(p)
               /\ NormSquared(p) <= (VIS_MAX * PosDen) * (VIS_MAX * PosDen)
               /\ raw # Origin => SameDirection(p, raw)

\* the rendered stars the tint engine treats as the selected one
TreatedAsSelected ==
    {n \in DOMAIN stars : stars[n].attributes.name = selectedName}

\* C22: whenever a star is selected, at most one rendered star has the
\* selected name as its display name.
C22_AtMostOneTreatedAsSelected ==
    (variant = "controls" /\ galaxySelected # NoStar) =>
        Cardinality(TreatedAsSelected) <= 1

\* C23: a click on a star, a search and a click on empty space leave the
\* camera position and the look-at target where they are; only frames move
\* them.
C23_EventsNeverMoveCamera ==
    [][galaxyOp'.op \in {"handleStarSelect", "handleVoidClick", "setSearchValue",
                         "performSearch", "performSearch.hit",
                         "performSearch.miss"}
       => UNCHANGED <<cameraPosition, controlsTarget>>]_vars

\* after the step the selection is the record of the catalog star c and the
\* focus (or the orbit target and the camera) is on its position
SelectedAndFocusedAfter(c) ==
    /\ galaxySelected' # NoStar
    /\ galaxySelected'.name = catalog[c].name
    /\ variant = "focus" =>
          /\ galaxySelected'.position = AsScene(<<catalog[c].x, catalog[c].y,
                                                  catalog[c].z>>)
          /\ focus' = [enabled |-> TRUE, target |-> galaxySelected'.position]
    /\ variant = "controls" =>
          /\ controlsTarget' = galaxySelected'.position
          /\ cameraPosition' = [galaxySelected'.position EXCEPT
                                   ![3] = @ + 30 * PosDen]

\* C24: a lookup that is pending stays pending until it completes, whatever
\* searches are started meanwhile; every completion that hits leaves the
\* selection and the focus on the star it found, and every completion that
\* misses leaves them as they are: after the last of several completions the
\* state is the one the last hit wrote.
C24_LastCompletionWins ==
    /\ [][\A text \in SearchTexts :
             pending'[text] < pending[text] =>
                /\ pending'[text] = pending[text] - 1
                /\ galaxyOp'.op \in {"performSearch.hit", "performSearch.miss"}]_vars
    /\ [][galaxyOp'.op = "performSearch.hit"
             => SelectedAndFocusedAfter(selectedCat')]_vars
    /\ [][galaxyOp'.op = "performSearch.miss"
             => UNCHANGED <<galaxySelected, focus, controlsTarget,
                            cameraPosition, selectedCat>>]_vars

\* C24 witness: two lookups were pending together; one found a star, then
\* the other found another star, none is pending any more, and the selection
\* and the focus are on the star of the second.
C24_Witness ==
    /\ galaxyOp.op = "performSearch.hit"
    /\ galaxyOp.left = 0
    /\ galaxyOp.follows.op = "performSearch.hit"
    /\ galaxyOp.follows.cat # selectedCat
    /\ galaxySelected.name = catalog[selectedCat].name
    /\ variant = "focus"
    /\ focus = [enabled |-> TRUE, target |-> galaxySelected.position]

\* C25: the record of every selected catalog star has a position, a name
\* that is not empty, the status "unclaimed", a type label, an integer
\* temperature within the range of the class inferred for the star, and a
\* size made of a radius in hundredths and the suffix " x Sun radius".
C25_SelectionRecordIsComplete ==
    galaxySelected # NoStar =>
        LET cfg == SPECTRAL_CONFIG[inferSpectralClass(catalog[selectedCat])] IN
        /\ DOMAIN galaxySelected.position = 1..3
        /\ Truthy(galaxySelected.name)
        /\ galaxySelected.status = "unclaimed"
        /\ Truthy(<<galaxySelected.type>>)
        /\ galaxySelected.temperature \in Int
        /\ cfg.tempRange[1] <= galaxySelected.temperature
        /\ galaxySelected.temperature <= cfg.tempRange[2]
        /\ Len(galaxySelected.size) = 2
        /\ galaxySelected.size[1] \in Nat
        /\ galaxySelected.size[2] = " x Sun radius"

\* the record a comes before the record b in ascending distance, equal
\* distances in catalog order
Before(a, b) ==
    \/ catalog[a].distParsec < catalog[b].distParsec
    \/ catalog[a].distParsec = catalog[b].distParsec /\ a < b

\* order lists, without repetition, the cap nearest records of the catalog
\* (all of them when there are fewer), nearest first
IsNearestFirst(order, cap) ==
    /\ Len(order) = (IF Len(catalog) < cap THEN Len(catalog) ELSE cap)
    /\ \A i \in DOMAIN order : order[i] \in DOMAIN catalog
    /\ \A i, j \in DOMAIN order : i < j => Before(order[i], order[j])
    /\ \A c \in DOMAIN catalog :
          (\A i \in DOMAIN order : order[i] # c) =>
              \A i \in DOMAIN order : Before(order[i], c)

C27_TargetMixFollowsSelection ==
    \A n \in DOMAIN stars :
        /\ targetMix(stars[n], selectedName)
              = (IF galaxySelected = NoStar THEN 1
                 ELSE IF stars[n].attributes.name = galaxySelected.name
                      THEN 1 ELSE 0)
        /\ galaxyOp.op = "handleVoidClick"
              => targetMix(stars[n], selectedName) = 1

\* C27 witness: frames greyed a star while another was selected, and empty
\* space has just been clicked: the target of the greyed star is 1 again.
C27_Witness ==
    /\ galaxyOp.op = "handleVoidClick"
    /\ galaxyOp.deselected # 0
    /\ variant = "controls"
    /\ \E n \in DOMAIN focusMix :
          /\ focusMix[n] < MixDen
          /\ targetMix(stars[n], selectedName) = 1

\* C28: the star of a catalog record at (0, 0, 0) is rendered on the positive
\* z axis away from the origin, and a search that finds the record focuses
\* on a point of the positive z axis away from the origin.
C28_ZeroVectorGoesToPositiveZ ==
    /\ variant = "controls" =>
          \A n \in DOMAIN stars :
              LET s == catalog[RenderOrder(variant, catalog)[n]] IN
              <<s.x, s.y, s.z>> = Origin =>
                  /\ stars[n].position[1] = 0
                  /\ stars[n].position[2] = 0
                  /\ stars[n].position[3] > 0
    /\ (/\ galaxyOp.op = "performSearch.hit"
        /\ <<catalog[selectedCat].x, catalog[selectedCat].y,
             catalog[selectedCat].z>> = Origin)
       => /\ galaxySelected.position[1] = 0
          /\ galaxySelected.position[2] = 0
          /\ galaxySelected.position[3] > 0

\* C29: a lookup that completes with a hit was started with a text that is,
\* but for the case of the letters, the name of the star it found, whatever
\* the search box holds by now; and it leaves that star selected and the
\* focus on it, whatever step came before the completion.
C29_HitSelectsWhatWasSearched ==
    [][galaxyOp'.op = "performSearch.hit" =>
        /\ \E text \in SearchTexts :
              /\ pending[text] > 0
              /\ pending'[text] = pending[text] - 1
              /\ Len(trim(text)) > 0
              /\ toLowerCase(text) = toLowerCase(catalog[selectedCat'].name)
              /\ \A c \in 1..(selectedCat' - 1) :
                    catalog[c].name = NullStr
                    \/ toLowerCase(catalog[c].name) # toLowerCase(text)
        /\ galaxySelected' # NoStar
        /\ galaxySelected'.name = catalog[selectedCat'].name
        /\ variant = "focus" =>
              focus' = [enabled |-> TRUE, target |-> galaxySelected'.position]
        /\ variant = "controls" =>
              controlsTarget' = galaxySelected'.position]_vars

\* C29 witness: while a lookup was pending the search box was changed and
\* empty space was clicked; the lookup has now completed and the star it
\* was started for is selected and in focus.
C29_Witness ==
    /\ galaxyOp.op = "performSearch.hit"
    /\ galaxyOp.follows.op = "handleVoidClick"
    /\ galaxySelected # NoStar
    /\ galaxySelected.name = catalog[selectedCat].name
    /\ toLowerCase(searchValue) # toLowerCase(galaxySelected.name)
    /\ variant = "focus"
    /\ focus = [enabled |-> TRUE, target |-> galaxySelected.position]

\* C30: a frame leaves the projected stars (name, class, temperature, radius,
\* base position, scale), the catalog, the selection and the focus state as
\* they are; of the state it changes the eased mixes only.
C30_FrameKeepsDataAndSelection ==
    [][galaxyOp'.op = "frame" =>
        /\ stars' = stars
        /\ \A n \in DOMAIN stars :
              /\ stars'[n].attributes = stars[n].attributes
              /\ stars'[n].position = stars[n].position
              /\ stars'[n].meshScale = stars[n].meshScale
        /\ DOMAIN focusMix' = DOMAIN focusMix
        /\ UNCHANGED <<catalog, galaxySelected, selectedCat, focus,
                       searchValue, pending, variant>>]_vars

\* C30 witness: frames have eased the mixes while a clicked star is
\* selected, and the selection still shows the star's stored attributes.
C30_Witness ==
    /\ galaxyOp.op = "frame"
    /\ variant = "controls"
    /\ galaxySelected # NoStar
    /\ \E n \in DOMAIN focusMix : focusMix[n] = 484 * (MixDen \div 625)
    /\ \E n \in DOMAIN stars : galaxySelected = ClickInfo(stars[n])

\* C34: in every reachable state of the GalaxyCanvas that has a focus state,
\* the focus is engaged if and only if a star is selected; when engaged its
\* target is the position of the selected record, which is the position of
\* the catalog record it was made from, and when not engaged its target is
\* the origin.
C34_FocusFollowsSelection ==
    variant = "focus" =>
        /\ focus.enabled <=> galaxySelected # NoStar
        /\ focus.enabled =>
              /\ focus.target = galaxySelected.position
              /\ selectedCat # 0
              /\ focus.target = AsScene(<<catalog[selectedCat].x,
                                          catalog[selectedCat].y,
                                          catalog[selectedCat].z>>)
        /\ ~focus.enabled => focus.target = Origin

\* C34 witness: a search has just hit while another star was selected; the
\* focus is engaged on the found record, away from the origin.
C34_Witness ==
    /\ variant = "focus"
    /\ galaxyOp.op = "performSearch.hit"
    /\ galaxyOp.follows.op = "performSearch.hit"
    /\ galaxyOp.follows.cat # selectedCat
    /\ focus.enabled
    /\ focus.target = galaxySelected.position
    /\ focus.target # Origin

-----------------------------------------------------------------------------
(* The inference function on its own: every spectral string of at most      *)
(* MaxSpectLen characters over SpectChars (or none), every magnitude of     *)
(* MagSamples.                                                              *)

SpectChars ==
    {"O", "B", "A", "F", "G", "K", "M", "o", "b", "a", "f", "g", "k", "m",
     "x", "2", " "}

RECURSIVE StringsUpTo(_)
StringsUpTo(n) ==
    IF n = 0 THEN {<<>>}
    ELSE LET shorter == StringsUpTo(n - 1) IN
         shorter \cup {Append(str, c) : str \in shorter, c \in SpectChars}

\* on, just below and just above every threshold of the ladder, and far out
MagSamples ==
    {-2 * MagUnit, 8 * MagUnit} \cup
    UNION {{t - 1, t, t + 1} :
             t \in {0, (15 * MagUnit) \div 10, 3 * MagUnit,
                    (45 * MagUnit) \div 10, 6 * MagUnit}}

InferInit ==
    /\ \E spect \in StringsUpTo(MaxSpectLen) \cup {NullStr}, mag \in MagSamples :
          inferStar = [spect |-> spect, mag |-> mag]
    /\ inferClass = [none |-> TRUE]
    /\ GalaxyUnmounted
    /\ ConstellationUnmounted

InferCall ==
    /\ inferClass = [none |-> TRUE]
    /\ inferClass' = [part000 |-> inferSpectralClass(inferStar),
                      starField |-> inferSpectralClassStarField(inferStar),
                      galaxyCanvas |-> inferSpectralClassFromCatalog(inferStar)]
    /\ UNCHANGED <<inferStar, galaxyVars, constVars>>

InferNext == InferCall

SpecInfer == InferInit /\ [][InferNext]_vars

\* the class a first character names, written out
ClassNamedBy ==
    [O |-> "O", B |-> "B", A |-> "A", F |-> "F", G |-> "G", K |-> "K", M |-> "M",
     o |-> "O", b |-> "B", a |-> "A", f |-> "F", g |-> "G", k |-> "K", m |-> "M"]

\* C10: when the spectral string is not empty and its first character is one
\* of O B A F G K M in either case, each copy of the inference function
\* returns that letter, whatever the magnitude.
C10_RecognizedLetterWins ==
    (/\ inferClass # [none |-> TRUE]
     /\ inferStar.spect # NullStr
     /\ Len(inferStar.spect) > 0
     /\ inferStar.spect[1] \in DOMAIN ClassNamedBy)
    => /\ inferClass.part000 = ClassNamedBy[inferStar.spect[1]]
       /\ inferClass.starField = ClassNamedBy[inferStar.spect[1]]
       /\ inferClass.galaxyCanvas = ClassNamedBy[inferStar.spect[1]]

\* C10 witness: "g2" at magnitude 0.0, where the ladder alone would say B,
\* is inferred as G.
C10_Witness ==
    /\ inferStar = [spect |-> <<"g", "2">>, mag |-> 0]
    /\ inferClass # [none |-> TRUE]
    /\ inferClass.part000 = "G"
    /\ inferClass.starField = "G"
    /\ inferClass.galaxyCanvas = "G"
    /\ MagnitudeLadder(inferStar.mag) = "B"

\* the class of the ladder for a magnitude in 1/100000, thresholds written out
LadderClass(m) ==
    CASE m <= 0 -> "B"
      [] m > 0 /\ m <= 150000 -> "A"
      [] m > 150000 /\ m <= 300000 -> "F"
      [] m > 300000 /\ m <= 450000 -> "G"
      [] m > 450000 /\ m <= 600000 -> "K"
      [] m > 600000 -> "M"

AllCopiesInfer(cls) ==
    /\ inferClass.part000 = cls
    /\ inferClass.starField = cls
    /\ inferClass.galaxyCanvas = cls

\* the positions of the characters of the spectral string that are not blanks
NonBlankAt(spect) ==
    IF spect = NullStr THEN {} ELSE {i \in 1..Len(spect) : spect[i] # " "}

\* the first character of the spectral string that is not a blank
FirstNonBlank(spect) ==
    spect[CHOOSE i \in NonBlankAt(spect) : \A j \in NonBlankAt(spect) : i <= j]

====
